---- MODULE Spec2Model ----
(***************************************************************************)
(* Book Collection API (src/lecture_5/book_api/main.py): a FastAPI service *)
(* over one SQLite table `books`, reached through SQLAlchemy sessions.     *)
(*                                                                         *)
(* Text is a sequence of one-character strings.  An Optional value is a    *)
(* set: {} is None / NULL, {v} is the value v.  A JSON request body is a   *)
(* record holding the value of every field (None by default, as pydantic   *)
(* fills it) and `fields`, the names the client actually sent              *)
(* (pydantic's model_fields_set).                                          *)
(***************************************************************************)
EXTENDS Integers, Sequences, FiniteSets

VARIABLES
    books,      \* the rows of table `books`, in rowid (b-tree) order
    session,    \* the request-scoped session of get_db: "closed" | "open"
    call,       \* the request being served
    resp,       \* its response: status code and the Books of the body
    lastDeleted, \* history: the id the latest successful delete_book removed
    uPc, dPc,   \* concurrent run: position of the PUT and of the DELETE
    uObj, dObj, \* concurrent run: the instance each session loaded
    uRes, dRes, \* concurrent run: status code of each finished request
    books0      \* concurrent run, history: the table when the two arrived

cvars == <<uPc, dPc, uObj, dObj, uRes, dRes, books0>>
vars == <<books, session, call, resp, lastDeleted, cvars>>

(***************************************************************************)
(* Bounds of the model.                                                    *)
(***************************************************************************)
MaxBooks == 2      \* rows the table holds at most
MaxId == 2         \* largest rowid handed out
MaxSkip == 1       \* largest `skip` a request carries
MaxLimit == 2      \* largest valid `limit` a request carries

(***************************************************************************)
(* Program constants.                                                      *)
(***************************************************************************)
MinLength == 1     \* BookUpdate: Field(None, min_length=1)
YearGe == 0        \* BookUpdate: Field(None, ge=0, le=2100)
YearLe == 2100
SkipGe == 0        \* Query(0, ge=0)
LimitGe == 1       \* Query(100, ge=1, le=100)
LimitLe == 100
HTTP_200_OK == 200
HTTP_201_CREATED == 201
HTTP_204_NO_CONTENT == 204
HTTP_404_NOT_FOUND == 404
HTTP_422_UNPROCESSABLE == 422
HTTP_500_SERVER_ERROR == 500

None == {}
Some(v) == {v}
TheVal(o) == CHOOSE v \in o : TRUE

FieldNames == {"title", "author", "year"}

(***************************************************************************)
(* Values the requests of the model carry.                                 *)
(***************************************************************************)
Titles == {<<>>, <<"D", "u">>}
Authors == {<<"H">>, <<"a">>}
Years == {1999}

Max(S) == CHOOSE m \in S : \A x \in S : x <= m
Min2(a, b) == IF a <= b THEN a ELSE b
Range(s) == {s[i] : i \in DOMAIN s}
Ids(db) == {db[i].id : i \in DOMAIN db}

(***************************************************************************)
(* The table.  Column id is INTEGER PRIMARY KEY, an alias of SQLite's      *)
(* rowid; title and author are NOT NULL; year is nullable.                 *)
(***************************************************************************)

\* A mutant of NextRowid: the row count plus one.
NextRowidByCount(db) == Len(db) + 1

\* INSERT without an id: SQLite gives the largest rowid in the table plus
\* one, and 1 in an empty table (no AUTOINCREMENT on the column).
NextRowid(db) == IF db = <<>> THEN 1 ELSE Max(Ids(db)) + 1

\* The b-tree keeps the rows in rowid order.
RECURSIVE InsertRow(_, _)
InsertRow(db, row) ==
    IF db = <<>> THEN <<row>>
    ELSE IF row.id < Head(db).id THEN <<row>> \o db
    ELSE <<Head(db)>> \o InsertRow(Tail(db), row)

\* A mutant of DeleteRow: the DELETE never reaches the table.
DeleteRowLost(db, id) == db

\* DELETE FROM books WHERE id = ?
DeleteRow(db, id) == SelectSeq(db, LAMBDA r : r.id # id)

\* UPDATE books SET ... WHERE id = ?
UpdateRow(db, row) == [i \in DOMAIN db |-> IF db[i].id = row.id THEN row ELSE db[i]]

\* A mutant of QueryFirst: the filter on id is dropped.
QueryFirstAny(db, id) == IF db = <<>> THEN None ELSE Some(Head(db))

\* db.query(Book).filter(Book.id == book_id).first()
QueryFirst(db, id) == {db[i] : i \in {j \in DOMAIN db : db[j].id = id}}

\* A mutant of Window: the page runs one row too far.
WindowOneMore(rows, skip, limit) ==
    SubSeq(rows, skip + 1, Min2(skip + limit + 1, Len(rows)))

\* .offset(skip).limit(limit)
Window(rows, skip, limit) == SubSeq(rows, skip + 1, Min2(skip + limit, Len(rows)))

\* A mutant of OrderById: descending.
RECURSIVE OrderByIdDesc(_)
OrderByIdDesc(rows) ==
    IF rows = <<>> THEN <<>>
    ELSE LET m == CHOOSE i \in DOMAIN rows : \A j \in DOMAIN rows : rows[j].id <= rows[i].id
         IN <<rows[m]>> \o OrderByIdDesc([i \in 1..(Len(rows) - 1) |->
                                            IF i < m THEN rows[i] ELSE rows[i + 1]])

\* .order_by(Book.id): selection sort, ascending.
RECURSIVE OrderById(_)
OrderById(rows) ==
    IF rows = <<>> THEN <<>>
    ELSE LET m == CHOOSE i \in DOMAIN rows : \A j \in DOMAIN rows : rows[i].id <= rows[j].id
         IN <<rows[m]>> \o OrderById([i \in 1..(Len(rows) - 1) |->
                                        IF i < m THEN rows[i] ELSE rows[i + 1]])

(***************************************************************************)
(* Text functions.                                                         *)
(***************************************************************************)
\* lower-casing of one character, as SQLite's lower() and Python's
\* str.lower() both do on ASCII letters.
LowerChar(c) ==
    CASE c = "D" -> "d"
      [] c = "U" -> "u"
      [] c = "F" -> "f"
      [] c = "H" -> "h"
      [] c = "A" -> "a"
      [] OTHER -> c

Lower(s) == [i \in DOMAIN s |-> LowerChar(s[i])]

\* SQLite's LIKE: % matches any run of characters, _ any one character,
\* any other character itself, ASCII letters without regard to case.
RECURSIVE Like(_, _)
Like(p, s) ==
    IF p = <<>> THEN s = <<>>
    ELSE IF Head(p) = "%" THEN Like(Tail(p), s) \/ (s # <<>> /\ Like(p, Tail(s)))
    ELSE /\ s # <<>>
         /\ (Head(p) = "_" \/ LowerChar(Head(p)) = LowerChar(Head(s)))
         /\ Like(Tail(p), Tail(s))

\* column.contains(term): column LIKE '%' || term || '%', no autoescape.
Contains(column, term) == Like(<<"%">> \o term \o <<"%">>, column)

(***************************************************************************)
(* Request bodies and their validation (pydantic, before the handler).     *)
(***************************************************************************)
Unset == [sent |-> FALSE, v |-> None]
Sent(o) == [sent |-> TRUE, v |-> o]

\* The parsed JSON object: every field's value, None where it was not
\* sent, and the names that were sent.
Body(t, a, y) ==
    [fields |-> {n \in FieldNames : \/ n = "title" /\ t.sent
                                    \/ n = "author" /\ a.sent
                                    \/ n = "year" /\ y.sent},
     title |-> t.v, author |-> a.v, year |-> y.v]

\* BookCreate: title: str and author: str are required and not None;
\* year: Optional[int] = None.  No length or range is declared.
BookCreate(raw) ==
    /\ "title" \in raw.fields /\ raw.title # None
    /\ "author" \in raw.fields /\ raw.author # None

\* BookUpdate: every field Optional with default None; min_length=1 and
\* ge=0, le=2100 constrain a value that is not None.
BookUpdate(raw) ==
    /\ raw.title # None => Len(TheVal(raw.title)) >= MinLength
    /\ raw.author # None => Len(TheVal(raw.author)) >= MinLength
    /\ raw.year # None => (YearGe <= TheVal(raw.year) /\ TheVal(raw.year) <= YearLe)

\* skip: Query(0, ge=0); limit: Query(100, ge=1, le=100)
Pagination(skip, limit) == skip >= SkipGe /\ LimitGe <= limit /\ limit <= LimitLe

\* A mutant of update_data: model_dump() without exclude_unset.
update_data_all(raw) == FieldNames

\* book_update.model_dump(exclude_unset=True): the fields that were sent.
update_data(raw) == raw.fields

\* Python truthiness of an Optional[str] / Optional[int] query parameter.
TruthyStr(o) == o # None /\ TheVal(o) # <<>>
TruthyInt(o) == o # None /\ TheVal(o) # 0

(***************************************************************************)
(* The handlers.  Each gives the response and the table it leaves.         *)
(***************************************************************************)
Reply(status, body, db) == [status |-> status, body |-> body, books |-> db]

\* POST /books/
create_book(db, raw) ==
    IF ~BookCreate(raw) THEN Reply(HTTP_422_UNPROCESSABLE, <<>>, db)
    ELSE LET db_book == [id |-> NextRowid(db), title |-> TheVal(raw.title),
                         author |-> TheVal(raw.author), year |-> raw.year]
         IN Reply(HTTP_201_CREATED, <<db_book>>, InsertRow(db, db_book))

\* GET /books/ : no ORDER BY; SQLite's scan of the table walks the rowid
\* b-tree, so the rows come in rowid order.
get_books(db, skip, limit) ==
    IF ~Pagination(skip, limit) THEN Reply(HTTP_422_UNPROCESSABLE, <<>>, db)
    ELSE Reply(HTTP_200_OK, Window(db, skip, limit), db)

\* DELETE /books/{book_id}
delete_book(db, book_id) ==
    IF QueryFirst(db, book_id) = None THEN Reply(HTTP_404_NOT_FOUND, <<>>, db)
    ELSE Reply(HTTP_204_NO_CONTENT, <<>>, DeleteRow(db, book_id))

\* setattr(db_book, field, value) for every field of update_data
Patch(row, raw, names) ==
    [id |-> row.id,
     title |-> IF "title" \in names THEN raw.title ELSE Some(row.title),
     author |-> IF "author" \in names THEN raw.author ELSE Some(row.author),
     year |-> IF "year" \in names THEN raw.year ELSE row.year]

\* The flush's UPDATE meets the NOT NULL of title and author.
NotNullOk(obj) == obj.title # None /\ obj.author # None

ToRow(obj) ==
    [id |-> obj.id, title |-> TheVal(obj.title), author |-> TheVal(obj.author),
     year |-> obj.year]

\* PUT /books/{book_id}
update_book(db, book_id, raw) ==
    IF ~BookUpdate(raw) THEN Reply(HTTP_422_UNPROCESSABLE, <<>>, db)
    ELSE IF QueryFirst(db, book_id) = None THEN Reply(HTTP_404_NOT_FOUND, <<>>, db)
    ELSE LET db_book == Patch(TheVal(QueryFirst(db, book_id)), raw, update_data(raw))
         IN IF ~NotNullOk(db_book)
            THEN Reply(HTTP_500_SERVER_ERROR, <<>>, db)  \* IntegrityError at commit
            ELSE Reply(HTTP_200_OK, <<ToRow(db_book)>>, UpdateRow(db, ToRow(db_book)))

\* The filters search_books adds to the query.
SearchFilter(row, title, author, year) ==
    /\ TruthyStr(title) => Contains(Lower(row.title), Lower(TheVal(title)))
    /\ TruthyStr(author) => Contains(Lower(row.author), Lower(TheVal(author)))
    /\ TruthyInt(year) => row.year = year

\* GET /books/search/
search_books(db, title, author, year, skip, limit) ==
    IF ~Pagination(skip, limit) THEN Reply(HTTP_422_UNPROCESSABLE, <<>>, db)
    ELSE Reply(HTTP_200_OK,
               Window(OrderById(SelectSeq(db, LAMBDA r : SearchFilter(r, title, author, year))),
                      skip, limit),
               db)

(***************************************************************************)
(* Requests of the model.                                                  *)
(***************************************************************************)
CreateBodies ==
    {Body(t, a, y) : t \in {Unset} \cup {Sent(Some(x)) : x \in Titles},
                     a \in {Sent(Some(<<"H">>))},
                     y \in {Unset} \cup {Sent(Some(x)) : x \in Years}}

UpdateBodies ==
    {Body(t, a, y) : t \in {Unset, Sent(None), Sent(Some(<<>>)), Sent(Some(<<"D", "u">>))},
                     a \in {Unset, Sent(Some(<<"a">>))},
                     y \in {Unset, Sent(None)} \cup
                           {Sent(Some(x)) : x \in Years \cup {YearGe - 1, YearLe + 1}}}

BookIds == 1..MaxId
Skips == 0..MaxSkip
Limits == 0..MaxLimit
SearchTitles == {None, Some(<<>>), Some(<<"d">>), Some(<<"_">>)}
SearchAuthors == {None, Some(<<"h">>)}
SearchYears == {None, Some(0)} \cup {Some(y) : y \in Years}

NoCall == [op |-> "none"]
NoResp == [status |-> 0, body |-> <<>>]

Serve(r) ==
    /\ session = "closed"
    /\ session' = "open"
    /\ resp' = [status |-> r.status, body |-> r.body]
    /\ books' = r.books
    /\ UNCHANGED cvars

\* A body that passes validation is served while the table of the model
\* has room: fewer than MaxBooks rows, next rowid at most MaxId.
CreateBook ==
    \E raw \in CreateBodies :
        /\ BookCreate(raw) => (Len(books) < MaxBooks /\ NextRowid(books) <= MaxId)
        /\ call' = [op |-> "create", body |-> raw]
        /\ Serve(create_book(books, raw))
        /\ UNCHANGED lastDeleted

GetBooks ==
    \E skip \in Skips, limit \in Limits :
        /\ call' = [op |-> "list", skip |-> skip, limit |-> limit]
        /\ Serve(get_books(books, skip, limit))
        /\ UNCHANGED lastDeleted

DeleteBook ==
    \E book_id \in BookIds :
        /\ call' = [op |-> "delete", id |-> book_id]
        /\ Serve(delete_book(books, book_id))
        /\ UNCHANGED lastDeleted

\* DeleteBook, with the id it removed remembered.
DeleteBookRemembered ==
    \E book_id \in BookIds :
        /\ call' = [op |-> "delete", id |-> book_id]
        /\ Serve(delete_book(books, book_id))
        /\ lastDeleted' = IF delete_book(books, book_id).status = HTTP_204_NO_CONTENT
                          THEN Some(book_id) ELSE lastDeleted

UpdateBook ==
    \E book_id \in BookIds, raw \in UpdateBodies :
        /\ call' = [op |-> "update", id |-> book_id, body |-> raw]
        /\ Serve(update_book(books, book_id, raw))
        /\ UNCHANGED lastDeleted

SearchBooks ==
    \E title \in SearchTitles, author \in SearchAuthors, year \in SearchYears,
       skip \in Skips, limit \in Limits :
        /\ call' = [op |-> "search", title |-> title, author |-> author, year |-> year,
                    skip |-> skip, limit |-> limit]
        /\ Serve(search_books(books, title, author, year, skip, limit))
        /\ UNCHANGED lastDeleted

\* get_db's finally: db.close() once the response is out; the session and
\* what it loaded are gone before the next request.
CloseSession ==
    /\ session = "open"
    /\ session' = "closed"
    /\ call' = NoCall
    /\ resp' = NoResp
    /\ UNCHANGED <<books, lastDeleted, cvars>>

Init ==
    /\ books = <<>>
    /\ session = "closed"
    /\ call = NoCall
    /\ resp = NoResp
    /\ lastDeleted = None
    /\ uPc = "idle" /\ dPc = "idle"
    /\ uObj = None /\ dObj = None
    /\ uRes = 0 /\ dRes = 0
    /\ books0 = <<>>

Next ==
    \/ CreateBook
    \/ GetBooks
    \/ DeleteBook
    \/ UpdateBook
    \/ SearchBooks
    \/ CloseSession

Spec == Init /\ [][Next]_vars

\* The same service, remembering the latest id deleted.
NextH ==
    \/ CreateBook
    \/ GetBooks
    \/ DeleteBookRemembered
    \/ UpdateBook
    \/ SearchBooks
    \/ CloseSession

SpecH == Init /\ [][NextH]_vars

(***************************************************************************)
(* Vocabulary of the properties.                                           *)
(***************************************************************************)
\* A handler serves a request in this step.
Handled(op) == session = "closed" /\ session' = "open" /\ call'.op = op

\* The response to a request of kind op is out.
Served(op) == session = "open" /\ call.op = op

\* The Books of set S as the sequence of ascending id.
SeqById(S) ==
    [k \in 1..Cardinality(S) |->
        CHOOSE b \in S : Cardinality({c \in S : c.id <= b.id}) = k]

\* The records of seq after the first skip, at most limit of them.
Page(seq, skip, limit) ==
    [i \in 1..Min2(limit, IF Len(seq) > skip THEN Len(seq) - skip ELSE 0) |-> seq[skip + i]]

\* t occurs in s as a run of consecutive characters.
IsSubstring(t, s) == \E i \in 0..(Len(s) - Len(t)) : SubSeq(s, i + 1, i + Len(t)) = t

\* ---------------------------------------------------------------- C7
UniqueIds == \A i, j \in DOMAIN books : i # j => books[i].id # books[j].id

CreateAddsOne ==
    (Handled("create") /\ BookCreate(call'.body)) =>
        /\ resp'.status = HTTP_201_CREATED
        /\ Len(resp'.body) = 1
        /\ LET b == resp'.body[1]
           IN /\ b.title = TheVal(call'.body.title)
              /\ b.author = TheVal(call'.body.author)
              /\ b.year = call'.body.year
              /\ b.id \notin Ids(books)
              /\ Len(books') = Len(books) + 1
              /\ Range(books') = Range(books) \cup {b}
              /\ b \in Range(get_books(books', 0, Len(books')).body)

\* C7: a valid Create persists exactly one new Book with the values sent
\* and an id no stored Book has, a List with a sufficient limit includes
\* it, and no two stored Books ever share an id.
C7_CreateFreshUnique == [](UniqueIds) /\ [][CreateAddsOne]_vars

\* A Create answered 201 that added a second Book to the table.
C7_Witness ==
    /\ Served("create") /\ resp.status = HTTP_201_CREATED
    /\ Len(books) = 2 /\ resp.body = <<books[2]>>

\* ---------------------------------------------------------------- C5
UpdateFrame ==
    (Handled("update") /\ resp'.status = HTTP_200_OK) =>
        /\ call'.id \in Ids(books)
        /\ Len(books') = Len(books)
        /\ \A i \in DOMAIN books :
              IF books[i].id # call'.id THEN books'[i] = books[i]
              ELSE /\ books'[i].id = books[i].id
                   /\ IF "title" \in call'.body.fields
                      THEN Some(books'[i].title) = call'.body.title
                      ELSE books'[i].title = books[i].title
                   /\ IF "author" \in call'.body.fields
                      THEN Some(books'[i].author) = call'.body.author
                      ELSE books'[i].author = books[i].author
                   /\ IF "year" \in call'.body.fields
                      THEN books'[i].year = call'.body.year
                      ELSE books'[i].year = books[i].year
                   /\ resp'.body = <<books'[i]>>

\* C5: a successful Update changes only the fields present in the request
\* on the Book with that id; absent fields, the id and every other Book
\* keep their values, and the Book returned is the Book stored.
C5_UpdateOnlySentFields == [][UpdateFrame]_vars

\* An Update of the year alone on one of two Books, title and author kept.
C5_Witness ==
    /\ Served("update") /\ resp.status = HTTP_200_OK
    /\ call.body.fields = {"year"}
    /\ resp.body[1].year = Some(1999)
    /\ resp.body[1].title = <<"D", "u">>
    /\ Len(books) = 2

\* ---------------------------------------------------------------- C9
MissingIdIsNotFound ==
    /\ (Handled("delete") /\ call'.id \notin Ids(books)) =>
          (resp'.status = HTTP_404_NOT_FOUND /\ books' = books)
    /\ (Handled("update") /\ call'.id \notin Ids(books)) =>
          /\ books' = books
          /\ BookUpdate(call'.body) => resp'.status = HTTP_404_NOT_FOUND

C6_SearchNoFilterIsList ==
    (/\ Served("search")
     /\ call.title = None /\ call.author = None /\ call.year = None
     /\ Pagination(call.skip, call.limit)) =>
        /\ resp.status = get_books(books, call.skip, call.limit).status
        /\ resp.body = get_books(books, call.skip, call.limit).body

\* A Search without filters that returned two Books.
C6_Witness ==
    /\ Served("search")
    /\ call.title = None /\ call.author = None /\ call.year = None
    /\ Len(resp.body) = 2

\* ---------------------------------------------------------------- C8
ListAlgebra ==
    LET byId == SeqById(Range(books))
    IN \A s \in 0..(MaxSkip + 1), a \in 1..MaxLimit, b \in 1..MaxLimit :
          LET p == get_books(books, s, a)
              q == get_books(books, s + a, b)
              r == get_books(books, s, a + b)
          IN /\ p.status = HTTP_200_OK /\ q.status = HTTP_200_OK /\ r.status = HTTP_200_OK
             /\ p.body \o q.body = r.body
             /\ Ids(p.body) \cap Ids(q.body) = {}
             /\ p.body = Page(byId, s, a)
             /\ s >= Len(books) => p.body = <<>>

ListIsPure ==
    Handled("list") =>
        /\ books' = books
        /\ Pagination(call'.skip, call'.limit) =>
              /\ resp'.status = HTTP_200_OK
              /\ resp'.body = Page(SeqById(Range(books)), call'.skip, call'.limit)

\* C8: List(skip, limit) is the id-ordered Books after the first skip, at
\* most limit of them; List(s, a) and List(s+a, b) are disjoint and
\* concatenate to List(s, a+b); a skip at or past the size gives the empty
\* sequence; List leaves the store alone.
C8_ListPagination == [](ListAlgebra) /\ [][ListIsPure]_vars

\* The second page of a two-Book table, and a page past the end.
C8_Witness ==
    /\ Served("list") /\ call.skip = 1 /\ call.limit = 1
    /\ Len(books) = 2 /\ resp.body = <<books[2]>>
    /\ get_books(books, 2, 1).body = <<>>

\* ---------------------------------------------------------------- C1
\* C1 as stated: the id a Delete removed is never the id of a stored Book
\* again, nor of a Book in a List or Search result.
C1_DeletedIdNeverReturns ==
    /\ \A i \in DOMAIN books : books[i].id \notin lastDeleted
    /\ (Served("list") \/ Served("search")) =>
          \A i \in DOMAIN resp.body : resp.body[i].id \notin lastDeleted

DeleteRemoves ==
    /\ (Handled("delete") /\ call'.id \in Ids(books)) =>
          /\ resp'.status = HTTP_204_NO_CONTENT
          /\ call'.id \notin Ids(books')
          /\ Range(books') = {b \in Range(books) : b.id # call'.id}
    /\ (Handled("delete") /\ call'.id \notin Ids(books)) =>
          resp'.status = HTTP_404_NOT_FOUND

OnlyCreateBringsBack ==
    \A i \in BookIds :
        (i \notin Ids(books) /\ i \in Ids(books')) =>
            /\ Handled("create") /\ resp'.status = HTTP_201_CREATED
            /\ resp'.body[1].id = i
            /\ \A j \in Ids(books) : j < i

CreateTakesNextId ==
    (Handled("create") /\ resp'.status = HTTP_201_CREATED) =>
        resp'.body[1].id = IF books = <<>> THEN 1
                           ELSE 1 + CHOOSE m \in Ids(books) : \A j \in Ids(books) : j <= m

ReadsShowTheStore ==
    ((Served("list") \/ Served("search")) /\ resp.status = HTTP_200_OK) =>
        Range(resp.body) \subseteq Range(books)

\* C1, amended: Delete(id) on a stored Book removes it; while no Book has
\* that id, List and Search show no such Book and Delete(id) answers 404;
\* only a Create can bring the id back, and it does when the id is greater
\* than every id still stored (Create takes the greatest stored id plus
\* one, 1 on an empty table).
C1_DeletedIdGoneUntilReassigned ==
    /\ [](ReadsShowTheStore)
    /\ [][DeleteRemoves /\ OnlyCreateBringsBack /\ CreateTakesNextId]_vars

\* A Create that was given the id of the Book deleted before it.
C1_Witness ==
    /\ Served("create") /\ resp.status = HTTP_201_CREATED
    /\ resp.body[1].id \in lastDeleted

\* ---------------------------------------------------------------- C2
\* C2 as stated: a Create whose title is the empty string is answered 422
\* and the stored Books stay as they were.
C2_EmptyTitleRejected ==
    [][(Handled("create") /\ call'.body.title = Some(<<>>)) =>
          (resp'.status = HTTP_422_UNPROCESSABLE /\ books' = books)]_vars

\* ---------------------------------------------------------------- C3
\* A Book satisfies the filters supplied: title and author as
\* case-insensitive substrings, year as an exact match.
Satisfies(b, title, author, year) ==
    /\ title # None => IsSubstring(Lower(TheVal(title)), Lower(b.title))
    /\ author # None => IsSubstring(Lower(TheVal(author)), Lower(b.author))
    /\ year # None => b.year = year

\* C3 as stated: a Search returns the id-ascending Books that satisfy
\* every filter supplied, windowed by skip and limit.
C3_SearchAppliesEverySuppliedFilter ==
    (Served("search") /\ Pagination(call.skip, call.limit)) =>
        /\ resp.status = HTTP_200_OK
        /\ resp.body =
              Page(SeqById({b \in Range(books) :
                              Satisfies(b, call.title, call.author, call.year)}),
                   call.skip, call.limit)

\* ---------------------------------------------------------------- C4
\* What C4 calls invalid: a title or author sent that is not a non-empty
\* string, a year sent that lies outside [0, 2100].
RejectedByC4(raw) ==
    \/ "title" \in raw.fields /\ (raw.title = None \/ raw.title = Some(<<>>))
    \/ "author" \in raw.fields /\ (raw.author = None \/ raw.author = Some(<<>>))
    \/ "year" \in raw.fields /\ raw.year # None
          /\ (TheVal(raw.year) < YearGe \/ TheVal(raw.year) > YearLe)

\* C4 as stated, for the id of a stored Book: such an Update is answered
\* 422 and no stored Book changes.
C4_InvalidUpdateIs422 ==
    [][(Handled("update") /\ RejectedByC4(call'.body) /\ call'.id \in Ids(books)) =>
          (resp'.status = HTTP_422_UNPROCESSABLE /\ books' = books)]_vars

(***************************************************************************)
(* One PUT and one DELETE on the same Book, each in its own session, the   *)
(* sessions interleaved at the query and at the commit.  pysqlite opens a  *)
(* transaction only at the first write, so a query holds no lock and each  *)
(* flush-and-commit is one atomic step of the database.                    *)
(***************************************************************************)
Rows ==
    [id : BookIds, title : Titles, author : Authors,
     year : {None} \cup {Some(y) : y \in Years}]

\* Tables of one or two rows as a run of requests leaves them: rows in
\* ascending rowid.
Tables ==
    {<<r>> : r \in Rows} \cup
    {<<p[1], p[2]>> : p \in {q \in Rows \X Rows : q[1].id < q[2].id}}

\* The bodies a PUT served alone answers 200 for.
GoodUpdateBodies ==
    {raw \in UpdateBodies :
        /\ BookUpdate(raw)
        /\ "title" \in raw.fields => raw.title # None
        /\ "author" \in raw.fields => raw.author # None}

InitC ==
    /\ books \in Tables
    /\ books0 = books
    /\ \E id \in Ids(books), raw \in GoodUpdateBodies :
          call = [op |-> "update", id |-> id, body |-> raw]
    /\ session = "open"
    /\ resp = NoResp
    /\ lastDeleted = None
    /\ uPc = "start" /\ dPc = "start"
    /\ uObj = None /\ dObj = None
    /\ uRes = 0 /\ dRes = 0

\* update_book: db.query(Book).filter(Book.id == book_id).first()
UpdQuery ==
    /\ uPc = "start"
    /\ uObj' = QueryFirst(books, call.id)
    /\ IF uObj' = None
       THEN uPc' = "done" /\ uRes' = HTTP_404_NOT_FOUND
       ELSE uPc' = "loaded" /\ uRes' = uRes
    /\ UNCHANGED <<books, session, call, resp, lastDeleted, dPc, dObj, dRes, books0>>

\* update_book: the setattr loop, db.commit(), db.refresh(db_book).  The
\* flush sends UPDATE ... WHERE id = ? when an attribute has a new value
\* and raises StaleDataError when it matches no row; with nothing to
\* flush, the refresh raises InvalidRequestError when its SELECT finds no
\* row.  Either is an unhandled exception, answered 500.
UpdCommit ==
    /\ uPc = "loaded"
    /\ LET row == ToRow(Patch(TheVal(uObj), call.body, update_data(call.body)))
           dirty == row # TheVal(uObj)
           there == call.id \in Ids(books)
       IN /\ books' = IF dirty /\ there THEN UpdateRow(books, row) ELSE books
          /\ uRes' = IF there THEN HTTP_200_OK ELSE HTTP_500_SERVER_ERROR
    /\ uPc' = "done"
    /\ UNCHANGED <<session, call, resp, lastDeleted, uObj, dPc, dObj, dRes, books0>>

\* delete_book: db.query(Book).filter(Book.id == book_id).first()
DelQuery ==
    /\ dPc = "start"
    /\ dObj' = QueryFirst(books, call.id)
    /\ IF dObj' = None
       THEN dPc' = "done" /\ dRes' = HTTP_404_NOT_FOUND
       ELSE dPc' = "loaded" /\ dRes' = dRes
    /\ UNCHANGED <<books, session, call, resp, lastDeleted, uPc, uObj, uRes, books0>>

\* delete_book: db.delete(book), db.commit()
DelCommit ==
    /\ dPc = "loaded"
    /\ books' = DeleteRow(books, call.id)
    /\ dRes' = HTTP_204_NO_CONTENT
    /\ dPc' = "done"
    /\ UNCHANGED <<session, call, resp, lastDeleted, dObj, uPc, uObj, uRes, books0>>

NextC ==
    \/ UpdQuery
    \/ UpdCommit
    \/ DelQuery
    \/ DelCommit

SpecC == InitC /\ [][NextC]_vars

\* --------------------------------------------------------------- C10
\* The tables the two requests leave when one runs after the other.
SerialTables ==
    {delete_book(update_book(books0, call.id, call.body).books, call.id).books,
     update_book(delete_book(books0, call.id).books, call.id, call.body).books}

\* C10 as stated: when both requests have finished, each ended with its
\* success status or 404 and the table is one a serial order leaves.
C10_UpdateDeleteSerializable ==
    (uPc = "done" /\ dPc = "done") =>
        /\ uRes \in {HTTP_200_OK, HTTP_404_NOT_FOUND}
        /\ dRes \in {HTTP_204_NO_CONTENT, HTTP_404_NOT_FOUND}
        /\ books \in SerialTables

====
